---- MODULE Spec2Model ----
(***************************************************************************)
(* A model of chaoslib/secret.py: load_secrets and its three loaders       *)
(* (load_inline_secrets, load_secrets_from_env, load_secrets_from_vault)   *)
(* and create_vault_client.                                                *)
(*                                                                         *)
(* Python values are tagged records: Str(s) a string, Int(n) an integer,   *)
(* Dict(m) a dict (m a function from its keys to values), None.  A whole   *)
(* call of load_secrets is one behaviour: Init draws the arguments and the *)
(* process environment, each action runs one loader of the `loaders` tuple *)
(* followed by the merge of its result, and the last one returns.          *)
(***************************************************************************)
EXTENDS Integers, Sequences, FiniteSets, TLC

VARIABLES
    secrets_info,   \* argument: the secrets definition, in dict iteration order
    configuration,  \* argument: a Dict, or None (the default)
    environ,        \* os.environ: a function from the names that are set to strings
    HAS_HVAC,       \* whether `import hvac` succeeded
    pc,             \* "inline", "env", "vault": the loader to run next; "done"; "raised"
    secrets,        \* load_secrets' local `secrets`
    client,         \* what create_vault_client returned (None before the call)
    exchanges,      \* the AppRole exchanges performed, in order
    reads,          \* the store reads issued, in order
    result          \* what the caller receives: [status, value, exc]

vars == <<secrets_info, configuration, environ, HAS_HVAC, pc, secrets, client,
          exchanges, reads, result>>

----------------------------------------------------------------------------
(* Python values *)

EmptyMap == [x \in {} |-> x]

None == [k |-> "none"]

Str(s) == [k |-> "str", s |-> s]

PyInt(n) == [k |-> "int", n |-> n]

Dict(m) == [k |-> "dict", m |-> m]

\* isinstance(v, dict)
IsDict(v) == v.k = "dict"

\* d.get(key, default) on a dict d
PyGet(d, key, default) == IF key \in DOMAIN d.m THEN d.m[key] ELSE default

\* key in d, on a dict d
PyIn(key, d) == key \in DOMAIN d.m

\* bool(v): None and the empty dict are falsy
Truthy(v) == ~(v.k = "none" \/ (v.k = "dict" /\ DOMAIN v.m = {}))

\* str(v) of a string or a small integer
PyStr(v) ==
    IF v.k = "str" THEN v
    ELSE IF v.k = "int" THEN Str(ToString(v.n))
    ELSE Str("None")

\* a.update(b) on the functions that stand for dicts
Update(a, b) ==
    [x \in DOMAIN a \cup DOMAIN b |-> IF x \in DOMAIN b THEN b[x] ELSE a[x]]

\* d[key] = value
Put(d, key, value) == Update(d, [x \in {key} |-> value])

----------------------------------------------------------------------------
(* Exceptions and results *)

NoExc == [type |-> "none", about |-> ""]

\* InvalidExperiment("... environment key that does not exist: {env_key}")
MissingEnvKey(env_key) == [type |-> "InvalidExperiment", about |-> env_key]

\* InvalidExperiment("Failed to connect to Vault with the AppRole: ...")
AppRoleFailed == [type |-> "InvalidExperiment", about |-> "AppRole"]

\* None.get(...): 'NoneType' object has no attribute 'get'
AttributeError == [type |-> "AttributeError", about |-> "get"]

\* key not in None: argument of type 'NoneType' is not iterable
TypeError == [type |-> "TypeError", about |-> "in"]

\* an exception of the store client, raised by a read
StoreError(path) == [type |-> "StoreError", about |-> path]

Pending == [status |-> "pending", value |-> EmptyMap, exc |-> NoExc]

Returned(value) == [status |-> "returned", value |-> value, exc |-> NoExc]

Raised(exc) == [status |-> "raised", value |-> EmptyMap, exc |-> exc]

----------------------------------------------------------------------------
(* The merge of load_secrets *)

\* Merge with secrets[key] = value in place of the update
MergeReplacing(acc, partial) ==
    [t \in DOMAIN acc \cup DOMAIN partial |->
        IF t \in DOMAIN partial THEN partial[t] ELSE acc[t]]

\* for key, value in partial.items():
\*     if key not in secrets: secrets[key] = {}
\*     secrets[key].update(value)
Merge(acc, partial) ==
    [t \in DOMAIN acc \cup DOMAIN partial |->
        IF t \in DOMAIN partial
        THEN Update(IF t \in DOMAIN acc THEN acc[t] ELSE EmptyMap, partial[t])
        ELSE acc[t]]

---------------------------------------------------------------------------------------------------------------------------------------------------
(* load_inline_secrets *)

\* the body of the loop over keys.items(): acc is secrets[target]
InlineKey(acc, entry) ==
    LET key == entry.key
        value == entry.value
    IN  IF ~IsDict(value) THEN Put(acc, key, value)
        ELSE IF PyGet(value, "type", None) \notin {Str("env"), Str("vault")}
        THEN Put(acc, key, value)
        ELSE acc

\* the loop over keys.items()
InlineKeys(keys) ==
    LET f[i \in 0..Len(keys)] ==
            IF i = 0 THEN EmptyMap ELSE InlineKey(f[i - 1], keys[i])
    IN  f[Len(keys)]

\* the body of the loop over secrets_info.items(); an empty secrets[target] is
\* popped
InlineTarget(acc, t) ==
    LET found == InlineKeys(t.keys)
    IN  IF DOMAIN found = {} THEN acc ELSE Put(acc, t.target, found)

load_inline_secrets(info, config) ==
    LET f[i \in 0..Len(info)] ==
            IF i = 0 THEN EmptyMap ELSE InlineTarget(f[i - 1], info[i])
    IN  f[Len(info)]

----------------------------------------------------------------------------
(* load_secrets_from_env *)

\* EnvLookup without the membership test: env.get(env_key) alone
EnvLookupUnchecked(env, env_key) ==
    [exc |-> NoExc, v |-> IF env_key \in DOMAIN env THEN Str(env[env_key]) ELSE None]

\* env_key = value["key"]; raise if env_key not in env, else env.get(env_key)
EnvLookup(env, env_key) ==
    IF env_key \notin DOMAIN env
    THEN [exc |-> MissingEnvKey(env_key), v |-> None]
    ELSE [exc |-> NoExc, v |-> Str(env[env_key])]

\* the body of the loop over keys.items(): st is [exc, m], the exception that
\* has left the loop, if any, and secrets[target]
EnvKey(env, st, entry) ==
    LET key == entry.key
        value == entry.value
    IN  IF st.exc # NoExc THEN st
        ELSE IF IsDict(value) /\ PyGet(value, "type", None) = Str("env")
        THEN LET got == EnvLookup(env, value.m["key"].s)
             IN  IF got.exc # NoExc
                 THEN [exc |-> got.exc, m |-> st.m]
                 ELSE [exc |-> NoExc, m |-> Put(st.m, key, got.v)]
        ELSE st

EnvKeys(env, keys) ==
    LET f[i \in 0..Len(keys)] ==
            IF i = 0 THEN [exc |-> NoExc, m |-> EmptyMap]
            ELSE EnvKey(env, f[i - 1], keys[i])
    IN  f[Len(keys)]

\* the body of the loop over secrets_info.items()
EnvTarget(env, st, t) ==
    IF st.exc # NoExc THEN st
    ELSE LET found == EnvKeys(env, t.keys)
         IN  IF found.exc # NoExc THEN [exc |-> found.exc, m |-> EmptyMap]
             ELSE IF DOMAIN found.m = {} THEN st
             ELSE [exc |-> NoExc, m |-> Put(st.m, t.target, found.m)]

\* the result is [exc, m]
load_secrets_from_env(env, info, config) ==
    LET f[i \in 0..Len(info)] ==
            IF i = 0 THEN [exc |-> NoExc, m |-> EmptyMap]
            ELSE EnvTarget(env, f[i - 1], info[i])
    IN  f[Len(info)]

-----
(* The store, as the hvac client shows it to this module *)

\* the role secret the store accepts
ValidRoleSecret == Str("role-secret")

\* client.auth_approle(role_id, role_secret): the response, or ok = FALSE when
\* the call raises
AuthAppRole(role_id, role_secret) ==
    IF role_secret = ValidRoleSecret
    THEN [ok |-> TRUE,
          resp |-> Dict("auth" :> Dict("client_token" :> Str("session-token")))]
    ELSE [ok |-> FALSE, resp |-> None]

\* what the store holds at "foo/bar"
FooBar == Dict(("pw" :> Str("shhh")) @@ ("login" :> Str("jane")))

\* the secret the store holds at a path, None where it holds none
SecretAt(path) == IF path = "foo/bar" THEN FooBar ELSE None

\* the store answers a read of the path (with a payload or without); a read of
\* any other path, "denied" among them, raises
Readable(path) == path \in {"foo/bar", "missing", "nodata"}

\* the store answers a read of the path with a non-empty payload; at "nodata"
\* the payload holds no data
HasPayload(path) == path \in {"foo/bar", "nodata"}

\* kv.v1.read_secret(path=path): [ok, payload], ok = FALSE when it raises
ReadV1(path) ==
    IF ~Readable(path) THEN [ok |-> FALSE, payload |-> None]
    ELSE IF ~HasPayload(path) THEN [ok |-> TRUE, payload |-> None]
    ELSE IF SecretAt(path) = None
    THEN [ok |-> TRUE, payload |-> Dict("warnings" :> None)]
    ELSE [ok |-> TRUE, payload |-> Dict("data" :> SecretAt(path))]

\* kv.v2.read_secret_version(path=path): the same secrets in the versioned wrapper
ReadV2(path) ==
    IF ~Readable(path) THEN [ok |-> FALSE, payload |-> None]
    ELSE IF ~HasPayload(path) THEN [ok |-> TRUE, payload |-> None]
    ELSE IF SecretAt(path) = None
    THEN [ok |-> TRUE,
          payload |-> Dict("data" :> Dict("metadata" :> Dict("version" :> PyInt(1))))]
    ELSE [ok |-> TRUE,
          payload |-> Dict("data" :> Dict(("data" :> SecretAt(path))
                                          @@ ("metadata" :> Dict("version" :> PyInt(1)))))]

----------------------------------------------------------------------------
(* create_vault_client *)

NewClient(url, version, token) ==
    [k |-> "client", url |-> url, default_kv_version |-> version, token |-> token]

\* "vault_token" in configuration
TokenConfigured(config) == PyIn("vault_token", config)

\* RoleConfigured with `or` in place of `and`
RoleConfiguredEither(config) ==
    PyIn("vault_role_id", config) \/ PyIn("vault_role_secret", config)

\* "vault_role_id" in configuration and "vault_role_secret" in configuration
RoleConfigured(config) ==
    PyIn("vault_role_id", config) /\ PyIn("vault_role_secret", config)

\* RoleExchange with the failure logged and the client returned as it is
RoleExchangeSwallowed(cl, role_id, app_role) ==
    IF ~app_role.ok
    THEN [exc |-> NoExc, client |-> cl,
          exchanges |-> <<[role_id |-> role_id, ok |-> FALSE]>>]
    ELSE [exc |-> NoExc,
          client |-> [cl EXCEPT !.token = app_role.resp.m["auth"].m["client_token"]],
          exchanges |-> <<[role_id |-> role_id, ok |-> TRUE]>>]

\* the try/except around client.auth_approle and the token taken from its
\* response: app_role is AuthAppRole's result
RoleExchange(cl, role_id, app_role) ==
    IF ~app_role.ok
    THEN [exc |-> AppRoleFailed, client |-> None,
          exchanges |-> <<[role_id |-> role_id, ok |-> FALSE]>>]
    ELSE [exc |-> NoExc,
          client |-> [cl EXCEPT !.token = app_role.resp.m["auth"].m["client_token"]],
          exchanges |-> <<[role_id |-> role_id, ok |-> TRUE]>>]

\* the authentication of the client cl, hvac.Client(url=url) with its KV version
Authenticate(cl, config) ==
    IF TokenConfigured(config)
    THEN [exc |-> NoExc,
          client |-> [cl EXCEPT !.token = PyGet(config, "vault_token", None)],
          exchanges |-> <<>>]
    ELSE IF RoleConfigured(config)
    THEN RoleExchange(cl, PyGet(config, "vault_role_id", None),
                      AuthAppRole(PyGet(config, "vault_role_id", None),
                                  PyGet(config, "vault_role_secret", None)))
    ELSE [exc |-> NoExc, client |-> cl, exchanges |-> <<>>]

\* the result is [exc, client, exchanges]
create_vault_client(hvac, config) ==
    IF ~hvac THEN [exc |-> NoExc, client |-> None, exchanges |-> <<>>]
    ELSE IF config = None                      \* None.get("vault_addr")
    THEN [exc |-> AttributeError, client |-> None, exchanges |-> <<>>]
    ELSE Authenticate(NewClient(PyGet(config, "vault_addr", None),
                                PyStr(PyGet(config, "vault_kv_version", Str("2"))),
                                None),
                      config)

----------------------------------------------------------------------------
(* load_secrets_from_vault *)

\* is_kv1 = kv.default_kv_version == "1"
IsKv1(cl) == cl.default_kv_version = Str("1")

\* the read chosen by is_kv1: [ok, payload, read], ok = FALSE when it raises
ReadPayload(cl, path) ==
    IF IsKv1(cl)
    THEN ReadV1(path) @@ [read |-> [version |-> 1, path |-> path]]
    ELSE ReadV2(path) @@ [read |-> [version |-> 2, path |-> path]]

\* PayloadData without the second unwrapping of KV version 2
PayloadDataUnwrappedOnce(cl, vault_payload) == PyGet(vault_payload, "data", None)

\* data = vault_payload.get("data"), or .get("data", {}).get("data")
PayloadData(cl, vault_payload) ==
    IF IsKv1(cl)
    THEN PyGet(vault_payload, "data", None)
    ELSE PyGet(PyGet(vault_payload, "data", Dict(EmptyMap)), "data", None)

\* the value of one entry out of data: [exc, found, v], with found = FALSE
\* where the code logs a warning and continues
PickValue(value, data) ==
    IF PyIn("key", value)
    THEN IF data = None                                  \* vault_key not in None
         THEN [exc |-> TypeError, found |-> FALSE, v |-> None]
         ELSE IF ~PyIn(value.m["key"].s, data)
         THEN [exc |-> NoExc, found |-> FALSE, v |-> None]
         ELSE [exc |-> NoExc, found |-> TRUE, v |-> PyGet(data, value.m["key"].s, None)]
    ELSE [exc |-> NoExc, found |-> TRUE, v |-> data]

\* one entry after its read: got is the read's [ok, payload, read]
AfterRead(cl, value, got) ==
    IF ~got.ok
    THEN [exc |-> StoreError(got.read.path), found |-> FALSE, v |-> None,
          reads |-> <<got.read>>]
    ELSE IF ~Truthy(got.payload)
    THEN [exc |-> NoExc, found |-> FALSE, v |-> None, reads |-> <<got.read>>]
    ELSE PickValue(value, PayloadData(cl, got.payload)) @@ [reads |-> <<got.read>>]

\* VaultEntry without the test of the path: the read is issued with path None
VaultEntryPathUnchecked(cl, value) ==
    AfterRead(cl, value,
              ReadPayload(cl, IF PyGet(value, "path", None) = None THEN "None"
                              ELSE PyGet(value, "path", None).s))

\* one vault entry once hvac is known to be there: [exc, found, v, reads]
VaultEntry(cl, value) ==
    IF PyGet(value, "path", None) = None
    THEN [exc |-> NoExc, found |-> FALSE, v |-> None, reads |-> <<>>]
    ELSE AfterRead(cl, value, ReadPayload(cl, PyGet(value, "path", None).s))

\* secrets[target] and the reads after an entry: e is VaultEntry's result
PutEntry(st, key, e) ==
    [exc |-> e.exc, abort |-> FALSE,
     m |-> IF e.found THEN Put(st.m, key, e.v) ELSE st.m,
     reads |-> st.reads \o e.reads]

\* VaultKey without the test of HAS_HVAC: the null client is used
VaultKeyLibraryUnchecked(hvac, cl, st, entry) ==
    IF st.exc # NoExc \/ st.abort THEN st
    ELSE IF IsDict(entry.value) /\ PyGet(entry.value, "type", None) = Str("vault")
    THEN IF cl = None
         THEN [exc |-> AttributeError, abort |-> FALSE, m |-> st.m, reads |-> st.reads]
         ELSE PutEntry(st, entry.key, VaultEntry(cl, entry.value))
    ELSE st

\* the body of the loop over keys.items(): st is [exc, abort, m, reads], abort
\* where the code has returned {}
VaultKey(hvac, cl, st, entry) ==
    IF st.exc # NoExc \/ st.abort THEN st
    ELSE IF IsDict(entry.value) /\ PyGet(entry.value, "type", None) = Str("vault")
    THEN IF ~hvac
         THEN [exc |-> NoExc, abort |-> TRUE, m |-> st.m, reads |-> st.reads]
         ELSE PutEntry(st, entry.key, VaultEntry(cl, entry.value))
    ELSE st

VaultKeys(hvac, cl, keys, rds) ==
    LET f[i \in 0..Len(keys)] ==
            IF i = 0 THEN [exc |-> NoExc, abort |-> FALSE, m |-> EmptyMap, reads |-> rds]
            ELSE VaultKey(hvac, cl, f[i - 1], keys[i])
    IN  f[Len(keys)]

\* the end of the loop body over secrets_info.items(): found is VaultKeys' result
PutTarget(st, target, found) ==
    IF found.exc # NoExc \/ found.abort                  \* raise, or return {}
    THEN [exc |-> found.exc, abort |-> found.abort, m |-> EmptyMap, reads |-> found.reads]
    ELSE IF DOMAIN found.m = {}                          \* secrets.pop(target)
    THEN [exc |-> NoExc, abort |-> FALSE, m |-> st.m, reads |-> found.reads]
    ELSE [exc |-> NoExc, abort |-> FALSE, m |-> Put(st.m, target, found.m),
          reads |-> found.reads]

\* the body of the loop over secrets_info.items()
VaultTarget(hvac, cl, st, t) ==
    IF st.exc # NoExc \/ st.abort THEN st
    ELSE PutTarget(st, t.target, VaultKeys(hvac, cl, t.keys, st.reads))

VaultTargets(hvac, cl, info) ==
    LET f[i \in 0..Len(info)] ==
            IF i = 0 THEN [exc |-> NoExc, abort |-> FALSE, m |-> EmptyMap, reads |-> <<>>]
            ELSE VaultTarget(hvac, cl, f[i - 1], info[i])
    IN  f[Len(info)]

\* the loops with the client made: made is create_vault_client's result
WithClient(hvac, info, made) ==
    IF made.exc # NoExc
    THEN [exc |-> made.exc, abort |-> FALSE, m |-> EmptyMap, reads |-> <<>>,
          client |-> made.client, exchanges |-> made.exchanges]
    ELSE VaultTargets(hvac, made.client, info)
         @@ [client |-> made.client, exchanges |-> made.exchanges]

\* the result is [exc, abort, m, reads, client, exchanges]
load_secrets_from_vault(hvac, info, config) ==
    WithClient(hvac, info, create_vault_client(hvac, config))

----------------------------------------------------------------------------
(* load_secrets, as one function of its arguments and of the environment *)

\* the loop over the loaders and the return: [result, reads], with inline, fromEnv
\* and fromVault the results of the three loaders
FoldLoaders(inline, fromEnv, fromVault) ==
    IF fromEnv.exc # NoExc
    THEN [result |-> Raised(fromEnv.exc), reads |-> <<>>]
    ELSE IF fromVault.exc # NoExc
    THEN [result |-> Raised(fromVault.exc), reads |-> fromVault.reads]
    ELSE [result |-> Returned(Merge(Merge(Merge(EmptyMap, inline), fromEnv.m),
                                    fromVault.m)),
          reads |-> fromVault.reads]

load_secrets(hvac, env, info, config) ==
    FoldLoaders(load_inline_secrets(info, config),
                load_secrets_from_env(env, info, config),
                load_secrets_from_vault(hvac, info, config))

----------------------------------------------------------------------------
(* The arguments and the environment a call may be given *)

\* the most targets a secrets definition holds
MaxTargets == 2

TargetName(i) == "t" \o ToString(i)

\* the names of the secrets of a target; a definition holds at most as many
\* entries as there are names
KeyNames == <<"s1", "s2", "s3">>

EnvRef(env_key) == Dict(("type" :> Str("env")) @@ ("key" :> Str(env_key)))

VaultRef(path) == Dict(("type" :> Str("vault")) @@ ("path" :> Str(path)))

VaultKeyRef(path, vault_key) ==
    Dict(("type" :> Str("vault")) @@ ("path" :> Str(path)) @@ ("key" :> Str(vault_key)))

\* a string, and a dict whose type is neither "env" nor "vault"
Literals == {Str("v1"), Dict("type" :> Str("probe"))}

EnvRefs == {EnvRef("MYVAR"), EnvRef("OTHER")}

VaultRefs ==
    {Dict(("type" :> Str("vault")) @@ ("key" :> Str("pw"))),        \* no path
     VaultKeyRef("foo/bar", "pw"), VaultRef("foo/bar"), VaultKeyRef("foo/bar", "nope"),
     VaultRef("missing"), VaultRef("nodata"), VaultKeyRef("nodata", "pw"),
     VaultKeyRef("denied", "pw")}

SecretValues == Literals \cup EnvRefs \cup VaultRefs

\* one target of the definition: its keys s1, s2, ... with the values vals
Target(name, vals) ==
    [target |-> name,
     keys |-> [i \in 1..Len(vals) |-> [key |-> KeyNames[i], value |-> vals[i]]]]

ValueLists(n) == [1..n -> SecretValues]

\* the number of entries of a definition
Size(info) ==
    LET f[i \in 0..Len(info)] == IF i = 0 THEN 0 ELSE f[i - 1] + Len(info[i].keys)
    IN  f[Len(info)]

\* the definitions of k targets, each holding an entry or more
InfosOf[k \in 0..MaxTargets] ==
    IF k = 0 THEN {<<>>}
    ELSE UNION {{Append(info, Target(TargetName(k), vs)) :
                    vs \in UNION {ValueLists(n) : n \in 1..(Len(KeyNames) - Size(info))}} :
                info \in InfosOf[k - 1]}

SecretsInfos == UNION {InfosOf[k] : k \in 1..MaxTargets}

Configurations ==
    {None,
     Dict(EmptyMap),
     Dict(("vault_addr" :> Str("http://vault")) @@ ("vault_token" :> Str("tok"))),
     Dict(("vault_token" :> Str("tok")) @@ ("vault_role_id" :> Str("rid"))
          @@ ("vault_role_secret" :> ValidRoleSecret) @@ ("vault_kv_version" :> Str("1"))),
     Dict(("vault_role_id" :> Str("rid")) @@ ("vault_role_secret" :> ValidRoleSecret)
          @@ ("vault_kv_version" :> PyInt(1))),
     Dict(("vault_role_id" :> Str("rid")) @@ ("vault_role_secret" :> Str("wrong"))),
     Dict(("vault_role_id" :> Str("rid")) @@ ("vault_kv_version" :> Str("3")))}

\* without the store library the configuration is never read: two stand for all
UnreadConfigurations == {None, Dict(EmptyMap)}

Environs == {EmptyMap, "MYVAR" :> "hello"}

----------------------------------------------------------------------------
(* load_secrets *)

Init ==
    /\ secrets_info \in SecretsInfos
    /\ HAS_HVAC \in BOOLEAN
    /\ configuration \in (IF HAS_HVAC THEN Configurations ELSE UnreadConfigurations)
    /\ environ \in Environs
    /\ pc = "inline"
    /\ secrets = EmptyMap
    /\ client = None
    /\ exchanges = <<>>
    /\ reads = <<>>
    /\ result = Pending

\* loaders[0] and the merge of its result
LoadInline ==
    /\ pc = "inline"
    /\ secrets' = Merge(secrets, load_inline_secrets(secrets_info, configuration))
    /\ pc' = "env"
    /\ UNCHANGED <<secrets_info, configuration, environ, HAS_HVAC, client, exchanges,
                   reads, result>>

\* loaders[1] and the merge of its result; its exception leaves load_secrets
LoadEnv ==
    /\ pc = "env"
    /\ \E r \in {load_secrets_from_env(environ, secrets_info, configuration)} :
           IF r.exc # NoExc
           THEN /\ pc' = "raised"
                /\ result' = Raised(r.exc)
                /\ UNCHANGED secrets
           ELSE /\ pc' = "vault"
                /\ secrets' = Merge(secrets, r.m)
                /\ UNCHANGED result
    /\ UNCHANGED <<secrets_info, configuration, environ, HAS_HVAC, client, exchanges,
                   reads>>

\* loaders[2], the merge of its result and the return
LoadVault ==
    /\ pc = "vault"
    /\ \E r \in {load_secrets_from_vault(HAS_HVAC, secrets_info, configuration)} :
           /\ client' = r.client
           /\ exchanges' = r.exchanges
           /\ reads' = r.reads
           /\ IF r.exc # NoExc
              THEN /\ pc' = "raised"
                   /\ result' = Raised(r.exc)
                   /\ UNCHANGED secrets
              ELSE /\ pc' = "done"
                   /\ secrets' = Merge(secrets, r.m)
                   /\ result' = Returned(secrets')
    /\ UNCHANGED <<secrets_info, configuration, environ, HAS_HVAC>>

Next == LoadInline \/ LoadEnv \/ LoadVault

Spec == Init /\ [][Next]_vars

----------------------------------------------------------------------------
(* Vocabulary of the properties *)

Terminated == pc \in {"done", "raised"}

\* the positions <<i, j>> of the entries of a definition, and their parts
Positions(info) ==
    UNION {{<<i, j>> : j \in 1..Len(info[i].keys)} : i \in 1..Len(info)}

TargetAt(info, p) == info[p[1]].target

KeyAt(info, p) == info[p[1]].keys[p[2]].key

ValueAt(info, p) == info[p[1]].keys[p[2]].value

\* p comes before q in the iteration order of the loaders
Before(p, q) == p[1] < q[1] \/ (p[1] = q[1] /\ p[2] < q[2])

IsEnvRef(v) == IsDict(v) /\ "type" \in DOMAIN v.m /\ v.m["type"] = Str("env")

IsVaultRef(v) == IsDict(v) /\ "type" \in DOMAIN v.m /\ v.m["type"] = Str("vault")

IsLiteral(v) == ~IsEnvRef(v) /\ ~IsVaultRef(v)

HasPath(v) == "path" \in DOMAIN v.m

NamesKey(v) == "key" \in DOMAIN v.m

\* (target, name) is in the map out
Has(out, target, name) == target \in DOMAIN out /\ name \in DOMAIN out[target]

\* the definition read as a map: target -> name -> value
AsMap(info) ==
    [t \in {info[i].target : i \in 1..Len(info)} |->
        LET i == CHOOSE i \in 1..Len(info) : info[i].target = t
        IN  [n \in {info[i].keys[j].key : j \in 1..Len(info[i].keys)} |->
                LET j == CHOOSE j \in 1..Len(info[i].keys) : info[i].keys[j].key = n
                IN  info[i].keys[j].value]]

\* the definition without its entry at position p
Without(info, p) ==
    [i \in 1..Len(info) |->
        IF i # p[1] THEN info[i]
        ELSE [target |-> info[i].target,
              keys |-> SubSeq(info[i].keys, 1, p[2] - 1)
                       \o SubSeq(info[i].keys, p[2] + 1, Len(info[i].keys))]]

----------------------------------------------------------------------------
(* Properties *)

\* the step machine and load_secrets, the function, agree on every call
StepsAgreeWithFunction ==
    Terminated =>
        /\ result = load_secrets(HAS_HVAC, environ, secrets_info, configuration).result
        /\ reads = load_secrets(HAS_HVAC, environ, secrets_info, configuration).reads

AllLiteral(info) == \A p \in Positions(info) : IsLiteral(ValueAt(info, p))

\* C1: a definition holding only literal values is returned as it is, whatever
\* the configuration (None included), and nothing is raised.
C1_LiteralsReturnedUnchanged ==
    (Terminated /\ AllLiteral(secrets_info)) => result = Returned(AsMap(secrets_info))

EnvKeyOf(v) == v.m["key"].s

\* the entries that refer to a variable the environment does not set
UnsetRefs ==
    {p \in Positions(secrets_info) :
        /\ IsEnvRef(ValueAt(secrets_info, p))
        /\ EnvKeyOf(ValueAt(secrets_info, p)) \notin DOMAIN environ}

\* the first of them in iteration order
FirstUnsetRef == CHOOSE p \in UnsetRefs : \A q \in UnsetRefs : q = p \/ Before(p, q)

\* every env reference to a set variable is resolved to its value in the map
\* returned
EnvRefsResolved ==
    \A p \in Positions(secrets_info) :
        (/\ IsEnvRef(ValueAt(secrets_info, p))
         /\ EnvKeyOf(ValueAt(secrets_info, p)) \in DOMAIN environ
         /\ result.status = "returned")
        => /\ Has(result.value, TargetAt(secrets_info, p), KeyAt(secrets_info, p))
           /\ result.value[TargetAt(secrets_info, p)][KeyAt(secrets_info, p)]
                = Str(environ[EnvKeyOf(ValueAt(secrets_info, p))])

\* C2 as stated: an env reference to a set variable V resolves to V's value; an
\* env reference to an unset V makes load_secrets raise InvalidExperiment naming
\* V, with no result map.
C2_Original ==
    Terminated =>
        /\ EnvRefsResolved
        /\ \A p \in UnsetRefs :
               result = Raised(MissingEnvKey(EnvKeyOf(ValueAt(secrets_info, p))))

\* C2 as amended: an env reference to a set variable V resolves to V's value in
\* the map returned; if any env reference names an unset variable, load_secrets
\* raises InvalidExperiment naming the unset variable of the first such reference
\* in iteration order, and the caller receives no result map.
C2_FirstUnsetNamed ==
    Terminated =>
        /\ EnvRefsResolved
        /\ UnsetRefs # {} =>
               result = Raised(MissingEnvKey(EnvKeyOf(ValueAt(secrets_info, FirstUnsetRef))))

\* two env references to different unset variables, the second one not named
C2_Witness ==
    /\ pc = "raised"
    /\ \E p, q \in UnsetRefs :
           /\ Before(p, q)
           /\ EnvKeyOf(ValueAt(secrets_info, p)) # EnvKeyOf(ValueAt(secrets_info, q))
           /\ result.exc = MissingEnvKey(EnvKeyOf(ValueAt(secrets_info, p)))

\* a vault reference the claim calls unresolvable: no path, or a read that
\* yields no payload, or a payload without data, or without the named key
Unresolvable(v) ==
    /\ IsVaultRef(v)
    /\ \/ ~HasPath(v)
       \/ /\ Readable(v.m["path"].s)
          /\ \/ SecretAt(v.m["path"].s) = None
             \/ NamesKey(v) /\ v.m["key"].s \notin DOMAIN SecretAt(v.m["path"].s).m

\* C3: no target of the map returned is empty, and a target whose every secret
\* is an unresolvable reference is not in the map returned.
C3_OnlyResolvedTargets ==
    result.status = "returned" =>
        /\ \A t \in DOMAIN result.value : DOMAIN result.value[t] # {}
        /\ \A i \in 1..Len(secrets_info) :
               (\A j \in 1..Len(secrets_info[i].keys) :
                    Unresolvable(secrets_info[i].keys[j].value))
               => secrets_info[i].target \notin DOMAIN result.value

\* the union of partial maps, the later one deciding a (target, name) both hold
OrderedUnion(first, second) ==
    [t \in DOMAIN first \cup DOMAIN second |->
        [n \in UNION {DOMAIN m[t] : m \in {x \in {first, second} : t \in DOMAIN x}} |->
            IF Has(second, t, n) THEN second[t][n] ELSE first[t][n]]]

InlinePart == load_inline_secrets(secrets_info, configuration)

EnvPart == load_secrets_from_env(environ, secrets_info, configuration).m

VaultPart == load_secrets_from_vault(HAS_HVAC, secrets_info, configuration).m

\* C4: the map built is the union of the partial maps of the Inline, Environment
\* and Store resolvers folded in that order, per target, the later resolver
\* deciding a (target, name) two of them hold.
C4_OrderedUnionOfResolvers ==
    /\ pc = "env" => secrets = InlinePart
    /\ pc = "vault" => secrets = OrderedUnion(InlinePart, EnvPart)
    /\ pc = "done" =>
           /\ secrets = OrderedUnion(OrderedUnion(InlinePart, EnvPart), VaultPart)
           /\ result = Returned(secrets)

\* a target holding a literal, an env and a vault secret keeps all three
C4_Witness ==
    /\ pc = "done"
    /\ \E i \in 1..Len(secrets_info) :
           /\ \E j \in 1..Len(secrets_info[i].keys) :
                  IsLiteral(secrets_info[i].keys[j].value)
           /\ \E j \in 1..Len(secrets_info[i].keys) :
                  IsEnvRef(secrets_info[i].keys[j].value)
           /\ \E j \in 1..Len(secrets_info[i].keys) :
                  IsVaultRef(secrets_info[i].keys[j].value)
           /\ secrets_info[i].target \in DOMAIN result.value
           /\ DOMAIN result.value[secrets_info[i].target]
                = {secrets_info[i].keys[j].key : j \in 1..Len(secrets_info[i].keys)}

\* C5 as stated: if every env reference names a set variable, load_secrets
\* returns a map, whatever the configuration and the store do.
C5_Original == (Terminated /\ UnsetRefs = {}) => result.status = "returned"

\* the role exchange is performed and the store refuses it
ExchangeFails ==
    /\ "vault_token" \notin DOMAIN configuration.m
    /\ {"vault_role_id", "vault_role_secret"} \subseteq DOMAIN configuration.m
    /\ configuration.m["vault_role_secret"] # ValidRoleSecret

\* the vault entries on which the Store resolver fails: the read raises, or a key
\* is looked up in a payload that has no data
FailingEntries ==
    {p \in Positions(secrets_info) :
        /\ IsVaultRef(ValueAt(secrets_info, p))
        /\ HasPath(ValueAt(secrets_info, p))
        /\ \/ ~Readable(ValueAt(secrets_info, p).m["path"].s)
           \/ /\ HasPayload(ValueAt(secrets_info, p).m["path"].s)
              /\ SecretAt(ValueAt(secrets_info, p).m["path"].s) = None
              /\ NamesKey(ValueAt(secrets_info, p))}

FirstFailingEntry ==
    CHOOSE p \in FailingEntries : \A q \in FailingEntries : q = p \/ Before(p, q)

FailureOf(v) ==
    IF ~Readable(v.m["path"].s) THEN StoreError(v.m["path"].s) ELSE TypeError

\* C5 as amended: with every env reference naming a set variable, load_secrets
\* returns a map when the store library is unavailable; when it is available the
\* failures of the Store resolver reach the caller (AttributeError for a None
\* configuration, InvalidExperiment for a refused role exchange, the store's
\* error for a read that raises, TypeError for a key looked up in a payload
\* without data) and a map is returned in every other case.
C5_StoreFailuresReachCaller ==
    (Terminated /\ UnsetRefs = {}) =>
        IF ~HAS_HVAC THEN result.status = "returned"
        ELSE IF configuration = None THEN result = Raised(AttributeError)
        ELSE IF ExchangeFails THEN result = Raised(AppRoleFailed)
        ELSE IF FailingEntries # {}
        THEN result = Raised(FailureOf(ValueAt(secrets_info, FirstFailingEntry)))
        ELSE result.status = "returned"

\* a refused role exchange reaches the caller though every env reference is set
C5_Witness ==
    /\ pc = "raised"
    /\ result.exc = AppRoleFailed
    /\ \E p \in Positions(secrets_info) : IsEnvRef(ValueAt(secrets_info, p))
    /\ UnsetRefs = {}

\* a read of the path was issued
WasRead(path) == \E k \in 1..Len(reads) : reads[k].path = path

\* the named key is not in the data of the payload at the reference's path
KeyNotInData(v) ==
    \/ SecretAt(v.m["path"].s) = None
    \/ v.m["key"].s \notin DOMAIN SecretAt(v.m["path"].s).m

\* C6: a vault reference with a path and a key whose read returns a non-empty
\* payload without that key raises nothing and is left out, and every other
\* entry resolves as it would without it.
C6_AbsentKeySkipped ==
    Terminated =>
        \A p \in Positions(secrets_info) :
            (/\ IsVaultRef(ValueAt(secrets_info, p))
             /\ HasPath(ValueAt(secrets_info, p))
             /\ NamesKey(ValueAt(secrets_info, p))
             /\ HasPayload(ValueAt(secrets_info, p).m["path"].s)
             /\ KeyNotInData(ValueAt(secrets_info, p))
             /\ WasRead(ValueAt(secrets_info, p).m["path"].s))
            => /\ result = load_secrets(HAS_HVAC, environ, Without(secrets_info, p),
                                        configuration).result
               /\ ~Has(result.value, TargetAt(secrets_info, p), KeyAt(secrets_info, p))

ClientMade == Terminated /\ UnsetRefs = {} /\ HAS_HVAC /\ configuration # None

\* the error create_vault_client raises
ClientError == result.status = "raised" /\ result.exc \in {AppRoleFailed, AttributeError}

\* C8: with the store library, create_vault_client authenticates by the fields
\* of the configuration: vault_token present, the client holds that token and no
\* role exchange is made; otherwise both role fields present, exactly one
\* exchange is made, its session token is the client's, and a refused exchange
\* raises InvalidExperiment; otherwise the client holds no token and nothing is
\* raised.
C8_OneAuthStrategy ==
    ClientMade =>
        IF "vault_token" \in DOMAIN configuration.m
        THEN /\ client.k = "client"
             /\ client.token = configuration.m["vault_token"]
             /\ exchanges = <<>>
             /\ ~ClientError
        ELSE IF {"vault_role_id", "vault_role_secret"} \subseteq DOMAIN configuration.m
        THEN /\ Len(exchanges) = 1
             /\ exchanges[1].role_id = configuration.m["vault_role_id"]
             /\ exchanges[1].ok =>
                    /\ client.k = "client"
                    /\ client.token = Str("session-token")
                    /\ ~ClientError
             /\ ~exchanges[1].ok => result = Raised(AppRoleFailed)
             /\ exchanges[1].ok = (configuration.m["vault_role_secret"] = ValidRoleSecret)
        ELSE /\ client.k = "client"
             /\ client.token = None
             /\ exchanges = <<>>
             /\ ~ClientError

\* a token and both role fields: the token is used and no exchange is made
C8_Witness ==
    /\ ClientMade
    /\ {"vault_token", "vault_role_id", "vault_role_secret"} \subseteq DOMAIN configuration.m
    /\ client.token = Str("tok")
    /\ exchanges = <<>>

\* what the Inline and Environment resolvers produce: every literal as it is and
\* every env reference as the value of its variable
InlineAndEnv ==
    LET kept(i) == {j \in 1..Len(secrets_info[i].keys) :
                        ~IsVaultRef(secrets_info[i].keys[j].value)}
        shown == {i \in 1..Len(secrets_info) : kept(i) # {}}
    IN  [t \in {secrets_info[i].target : i \in shown} |->
            LET i == CHOOSE i \in shown : secrets_info[i].target = t
            IN  [n \in {secrets_info[i].keys[j].key : j \in kept(i)} |->
                    LET v == secrets_info[i].keys[
                                 CHOOSE j \in kept(i) : secrets_info[i].keys[j].key = n].value
                    IN  IF IsEnvRef(v) THEN Str(environ[EnvKeyOf(v)]) ELSE v]]

\* C9: without the store library the client is null and never used, no exception
\* comes from the missing library, the Store resolver contributes nothing, and
\* the output is what the Inline and Environment resolvers produce.
C9_NoLibraryNoStoreEntries ==
    (Terminated /\ ~HAS_HVAC) =>
        /\ client = None
        /\ reads = <<>>
        /\ exchanges = <<>>
        /\ IF UnsetRefs # {}
           THEN result.status = "raised" /\ result.exc.type = "InvalidExperiment"
           ELSE /\ result = Returned(InlineAndEnv)
                /\ \A p \in Positions(secrets_info) :
                       IsVaultRef(ValueAt(secrets_info, p))
                       => ~Has(result.value, TargetAt(secrets_info, p),
                               KeyAt(secrets_info, p))

\* no library, no configuration, a vault reference the store could resolve and a
\* literal beside it
C9_Witness ==
    /\ pc = "done"
    /\ ~HAS_HVAC
    /\ configuration = None
    /\ \E p, q \in Positions(secrets_info) :
           /\ ValueAt(secrets_info, p) = VaultKeyRef("foo/bar", "pw")
           /\ IsLiteral(ValueAt(secrets_info, q))
           /\ Has(result.value, TargetAt(secrets_info, q), KeyAt(secrets_info, q))

\* the configuration asks for KV version 1
ConfiguredKv1 ==
    /\ configuration # None
    /\ "vault_kv_version" \in DOMAIN configuration.m
    /\ configuration.m["vault_kv_version"] \in {Str("1"), PyInt(1)}

\* the positions of a definition in iteration order
PositionSeq(info) ==
    LET f[i \in 0..Len(info)] ==
            IF i = 0 THEN <<>>
            ELSE f[i - 1] \o [j \in 1..Len(info[i].keys) |-> <<i, j>>]
    IN  f[Len(info)]

ReadsPath(p) ==
    IsVaultRef(ValueAt(secrets_info, p)) /\ HasPath(ValueAt(secrets_info, p))

\* one read per vault reference with a path, in iteration order, of the
\* configured version
ExpectedReads ==
    LET ps == SelectSeq(PositionSeq(secrets_info), ReadsPath)
    IN  [k \in 1..Len(ps) |->
            [version |-> IF ConfiguredKv1 THEN 1 ELSE 2,
             path |-> ValueAt(secrets_info, ps[k]).m["path"].s]]

IsPrefix(a, b) == Len(a) <= Len(b) /\ a = SubSeq(b, 1, Len(a))

\* C10: every vault reference with a path gets exactly one read, a version-1 read
\* if the configured KV version is "1" and a version-2 read otherwise; where the
\* read yields a payload the value is data[key] for a named key present in data
\* and the whole data if no key is named, data being the secret itself under
\* either version.
C10_VersionedReadAndValue ==
    /\ IsPrefix(reads, ExpectedReads)
    /\ (result.status = "returned" /\ HAS_HVAC) =>
           /\ reads = ExpectedReads
           /\ \A p \in Positions(secrets_info) :
                  (ReadsPath(p) /\ HasPayload(ValueAt(secrets_info, p).m["path"].s))
                  => IF ~NamesKey(ValueAt(secrets_info, p))
                     THEN /\ Has(result.value, TargetAt(secrets_info, p),
                                 KeyAt(secrets_info, p))
                          /\ result.value[TargetAt(secrets_info, p)][KeyAt(secrets_info, p)]
                               = SecretAt(ValueAt(secrets_info, p).m["path"].s)
                     ELSE ~KeyNotInData(ValueAt(secrets_info, p))
                          => /\ Has(result.value, TargetAt(secrets_info, p),
                                    KeyAt(secrets_info, p))
                             /\ result.value[TargetAt(secrets_info, p)][KeyAt(secrets_info, p)]
                                  = SecretAt(ValueAt(secrets_info, p).m["path"].s).m[
                                        ValueAt(secrets_info, p).m["key"].s]

\* the KV-v2 payload {data: {data: {pw: "shhh"}}} read with key "pw"
C10_Witness ==
    /\ pc = "done"
    /\ HAS_HVAC
    /\ ~ConfiguredKv1
    /\ reads = <<[version |-> 2, path |-> "foo/bar"]>>
    /\ \E p \in Positions(secrets_info) :
           /\ ValueAt(secrets_info, p) = VaultKeyRef("foo/bar", "pw")
           /\ Has(result.value, TargetAt(secrets_info, p), KeyAt(secrets_info, p))
           /\ result.value[TargetAt(secrets_info, p)][KeyAt(secrets_info, p)] = Str("shhh")

====
